---- MODULE Spec2Model ----
(***************************************************************************)
(* Model of proxy.py, a Flask relay that forwards requests from a fixed    *)
(* list of web origins to a caller-given target URL and relays the answer  *)
(* with CORS headers.  One request is followed from arrival to response;   *)
(* the handler proxy() is cut at its blocking calls (reading the inbound   *)
(* body, the outbound urlopen, reading the upstream body), whose outcome   *)
(* is chosen by the environment.                                           *)
(*                                                                         *)
(* Python strings are TLA+ strings, handled character by character with    *)
(* Len, SubSeq and \o.  An optional value (str | None) is a record         *)
(* [some, val]; None is [some |-> FALSE, val |-> ""].                      *)
(***************************************************************************)
EXTENDS Integers, Sequences, FiniteSets, TLC

VARIABLES
    pc,        \* position of the request in the server
    req,       \* the parsed incoming request (flask.request)
    gate,      \* result of the handler's is_origin_allowed(origin) test
    target,    \* proxy(): target_url
    body,      \* proxy(): body
    outbound,  \* the outbound calls issued for this request, in order
    upstream,  \* what the target / the network did with the outbound call
    resp,      \* the response handed to the client
    outcome    \* which return statement produced resp, or "escaped"

vars == <<pc, req, gate, target, body, outbound, upstream, resp, outcome>>

----------------------------------------------------------------------------
(* Strings *)

None == [some |-> FALSE, val |-> ""]
Some(s) == [some |-> TRUE, val |-> s]

\* Python truthiness of a str | None value: None and "" are both falsy.
Truthy(o) == o.some /\ o.val # ""

CharAt(s, i) == SubSeq(s, i, i)

\* str.startswith
StartsWith(s, p) == Len(s) >= Len(p) /\ SubSeq(s, 1, Len(p)) = p

\* s[n:]
DropFirst(s, n) == IF Len(s) <= n THEN "" ELSE SubSeq(s, n + 1, Len(s))

\* s.find(c) for a one-character c, 1-based; 0 when absent
Find(s, c) ==
    IF \E i \in 1..Len(s) : CharAt(s, i) = c
    THEN CHOOSE i \in 1..Len(s) :
            /\ CharAt(s, i) = c
            /\ \A j \in 1..(i - 1) : CharAt(s, j) # c
    ELSE 0

Contains(s, c) == Find(s, c) > 0

UpperLetters == "ABCDEFGHIJKLMNOPQRSTUVWXYZ"
LowerLetters == "abcdefghijklmnopqrstuvwxyz"
Digits == "0123456789"

IsLetter(c) == Contains(UpperLetters, c) \/ Contains(LowerLetters, c)

\* urllib.parse.scheme_chars: letters, digits and "+-."
IsSchemeChar(c) == IsLetter(c) \/ Contains(Digits, c) \/ c \in {"+", "-", "."}

LowerChar(c) ==
    IF Contains(UpperLetters, c) THEN CharAt(LowerLetters, Find(UpperLetters, c)) ELSE c

RECURSIVE Lower(_)
Lower(s) == IF s = "" THEN "" ELSE LowerChar(CharAt(s, 1)) \o Lower(DropFirst(s, 1))

----------------------------------------------------------------------------
(* urllib.parse.urlparse, as far as proxy() uses it: the scheme, and the   *)
(* ValueError it raises for an unbalanced bracket in the network location. *)

\* 1-based position of the ":" ending a well-formed scheme, 0 if there is none
SchemeEnd(url) ==
    LET i == Find(url, ":")
    IN  IF /\ i > 1
           /\ IsLetter(CharAt(url, 1))
           /\ \A j \in 1..(i - 1) : IsSchemeChar(CharAt(url, j))
        THEN i
        ELSE 0

\* urlparse(url).scheme: lower-cased, "" when the string has no scheme
UrlScheme(url) ==
    IF SchemeEnd(url) > 0 THEN Lower(SubSeq(url, 1, SchemeEnd(url) - 1)) ELSE ""

AfterScheme(url) == IF SchemeEnd(url) > 0 THEN DropFirst(url, SchemeEnd(url)) ELSE url

Netloc(rest) ==
    IF StartsWith(rest, "//")
    THEN LET r == DropFirst(rest, 2)
             ends == {Find(r, c) : c \in {"/", "?", "#"}} \ {0}
         IN  IF ends = {}
             THEN r
             ELSE SubSeq(r, 1, (CHOOSE e \in ends : \A f \in ends : e <= f) - 1)
    ELSE ""

\* urlparse raises ValueError("Invalid IPv6 URL")
UrlParseRaises(url) ==
    LET n == Netloc(AfterScheme(url))
    IN  Contains(n, "[") # Contains(n, "]")

----------------------------------------------------------------------------
(* Static configuration *)

ALLOWED_ORIGINS == <<"https://pltchuong.github.io", "http://localhost", "http://127.0.0.1">>

FORWARD_HEADERS ==
    <<"Content-Type", "Accept", "Authorization", "User-Agent", "X-Requested-With">>

DEFAULT_USER_AGENT == "CORS-Proxy/1.0"

DEFAULT_CONTENT_TYPE == "application/octet-stream"

BODY_METHODS == {"POST", "PUT", "PATCH"}

PROXY_METHODS == {"GET", "POST", "PUT", "DELETE", "PATCH", "OPTIONS"}

PROXY_PREFIX == "/proxy/"

PROXY_PREFIX_LEN == 7

TIMEOUT == 30

Range(f) == {f[x] : x \in DOMAIN f}

----------------------------------------------------------------------------
(* The pure helpers of proxy.py *)

\* Faulty variant: a bare prefix test, without the "/" or ":" that must follow
is_origin_allowed_bare_prefix(origin) ==
    IF origin = ""
    THEN FALSE
    ELSE \E i \in 1..Len(ALLOWED_ORIGINS) : StartsWith(origin, ALLOWED_ORIGINS[i])

\* Faulty variant: a request without an Origin header is let through
is_origin_allowed_missing_ok(origin) ==
    IF origin = ""
    THEN TRUE
    ELSE \E i \in 1..Len(ALLOWED_ORIGINS) :
            LET allowed == ALLOWED_ORIGINS[i]
            IN  \/ origin = allowed
                \/ StartsWith(origin, allowed \o "/")
                \/ StartsWith(origin, allowed \o ":")

is_origin_allowed(origin) ==
    IF origin = ""
    THEN FALSE
    ELSE \E i \in 1..Len(ALLOWED_ORIGINS) :
            LET allowed == ALLOWED_ORIGINS[i]
            IN  \/ origin = allowed
                \/ StartsWith(origin, allowed \o "/")
                \/ StartsWith(origin, allowed \o ":")

\* Faulty variant: "if query_url is not None" in place of "if query_url"
get_target_url_is_not_none(path, query_url) ==
    IF query_url.some
    THEN query_url
    ELSE IF StartsWith(path, PROXY_PREFIX)
         THEN Some(DropFirst(path, PROXY_PREFIX_LEN))
         ELSE None

get_target_url(path, query_url) ==
    IF Truthy(query_url)
    THEN query_url
    ELSE IF StartsWith(path, PROXY_PREFIX)
         THEN Some(DropFirst(path, PROXY_PREFIX_LEN))
         ELSE None

\* request.headers.get(name): None when the header is absent
HeaderGet(headers, name) ==
    IF name \in DOMAIN headers THEN Some(headers[name]) ELSE None

\* request.headers.get(name, default)
HeaderGetDefault(headers, name, default) ==
    IF name \in DOMAIN headers THEN headers[name] ELSE default

\* Faulty variant: every incoming header is passed on
get_forward_headers_all(headers) ==
    IF "User-Agent" \in DOMAIN headers /\ headers["User-Agent"] # ""
    THEN headers
    ELSE [n \in DOMAIN headers \ {"User-Agent"} |-> headers[n]]
            @@ ("User-Agent" :> DEFAULT_USER_AGENT)

get_forward_headers(headers) ==
    LET copied == [n \in {m \in Range(FORWARD_HEADERS) : Truthy(HeaderGet(headers, m))}
                     |-> headers[n]]
    IN  IF "User-Agent" \in DOMAIN copied
        THEN copied
        ELSE copied @@ ("User-Agent" :> DEFAULT_USER_AGENT)

----------------------------------------------------------------------------
(* Responses *)

\* flask.jsonify of an object given as a sequence of <<key, value>> pairs
RECURSIVE JsonMembers(_)
JsonMembers(pairs) ==
    IF pairs = <<>>
    THEN ""
    ELSE "\"" \o pairs[1][1] \o "\":\"" \o pairs[1][2] \o "\""
         \o (IF Len(pairs) > 1 THEN "," ELSE "") \o JsonMembers(Tail(pairs))

jsonify(pairs) == "{" \o JsonMembers(pairs) \o "}"

NoCors == [allow_origin |-> "", allow_methods |-> "", allow_headers |-> "", max_age |-> ""]

NoResponse == [status |-> 0, content_type |-> "", body |-> "", cors |-> NoCors]

\* flask.Response(body, status=..., content_type=...)
Response(data, status, content_type) ==
    [status |-> status, content_type |-> content_type, body |-> data, cors |-> NoCors]

\* return jsonify(obj), status
JsonResponse(pairs, status) == Response(jsonify(pairs), status, "application/json")

\* Response(status=...): empty body, the framework's default content type
EmptyResponse(status) == Response("", status, "text/html; charset=utf-8")

Origin(r) == HeaderGetDefault(r.headers, "Origin", "")

\* Faulty variant: the Origin is echoed whenever the request names one
after_request_any_origin(r, response) ==
    LET origin == Origin(r)
    IN  IF origin # ""
        THEN [response EXCEPT !.cors =
                [allow_origin  |-> origin,
                 allow_methods |-> "GET, POST, PUT, DELETE, OPTIONS, PATCH",
                 allow_headers |-> "Content-Type, Authorization, X-Requested-With, Accept, Origin",
                 max_age       |-> "86400"]]
        ELSE response

\* the after_request hook, run on every response a view returns
after_request(r, response) ==
    LET origin == Origin(r)
    IN  IF is_origin_allowed(origin)
        THEN [response EXCEPT !.cors =
                [allow_origin  |-> origin,
                 allow_methods |-> "GET, POST, PUT, DELETE, OPTIONS, PATCH",
                 allow_headers |-> "Content-Type, Authorization, X-Requested-With, Accept, Origin",
                 max_age       |-> "86400"]]
        ELSE response

----------------------------------------------------------------------------
(* Input populations *)

MaxSuffixLen == 2

MaxHeaders == 2

\* what may follow an origin base: separators, a label dot, a port digit, a letter
SuffixAlphabet == {"/", ":", ".", "3", "t"}

RECURSIVE Suffixes(_)
Suffixes(n) ==
    IF n = 0
    THEN {""}
    ELSE LET shorter == Suffixes(n - 1)
         IN  shorter \cup {s \o c : s \in shorter, c \in SuffixAlphabet}

OriginBases == Range(ALLOWED_ORIGINS) \cup {"https://evil.example", "http://localhos"}

\* the Origin header: absent (None) or any string
WideOrigins == {None} \cup {Some(b \o s) : b \in OriginBases, s \in Suffixes(MaxSuffixLen)}

MainOrigins ==
    {None, Some(""), Some("https://pltchuong.github.io"), Some("http://localhost:3000"),
     Some("http://localhost.evil.example"), Some("https://evil.example")}

NarrowOrigins == {Some("http://localhost:3000"), Some("https://evil.example")}

IncomingNames == Range(FORWARD_HEADERS) \cup {"Cookie", "Host"}

HeaderValues == {"", "v", "w"}

\* the incoming headers other than Origin, keyed by canonical name
WideHeaders ==
    UNION {[names -> HeaderValues] :
             names \in {n \in SUBSET IncomingNames : Cardinality(n) <= MaxHeaders}}

MainHeaders ==
    {<<>>,
     [n \in {"User-Agent", "Cookie", "Host"} |->
        CASE n = "User-Agent" -> "Mozilla/5.0" [] n = "Cookie" -> "sid=1" [] OTHER -> "proxy.test"],
     [n \in {"Content-Type", "Authorization", "User-Agent"} |->
        CASE n = "Content-Type" -> "application/json" [] n = "Authorization" -> "Bearer t"
          [] OTHER -> ""],
     [n \in {"Accept", "X-Requested-With"} |->
        CASE n = "Accept" -> "*/*" [] OTHER -> "XMLHttpRequest"]}

NarrowHeaders == {<<>>}

\* targets, by what urlparse makes of them
GoodTargets == {"http://t.test/a", "https://x.test/y", "HTTP://T.test/c"}
BadSchemeTargets == {"ftp://x.test/y", "t.test/a", "file:///etc/passwd"}
MalformedTargets == {"http://[bad"}

\* request.path and request.args.get("url") of the requests routed to proxy():
\* /proxy, or /proxy/<rest> with a non-empty rest
MainPaths == {"/proxy", PROXY_PREFIX \o "https://x.test/y", PROXY_PREFIX \o "ftp://x.test/y"}
MainQueries ==
    {None, Some(""), Some("http://t.test/a"), Some("HTTP://T.test/c"), Some("t.test/a"),
     Some("file:///etc/passwd"), Some("http://[bad")}

NarrowPaths == {"/proxy", PROXY_PREFIX \o "https://x.test/y"}
NarrowQueries == {None, Some(""), Some("ftp://x.test/y"), Some("http://[bad")}

NarrowMethods == {"GET", "POST", "OPTIONS"}

Bodies == {"", "{\"x\":1}"}

\* what the target can answer
OkStatuses == {200, 204}
ErrorStatuses == {404, 500}
UpstreamContentTypes == {None, Some("application/json")}
UpstreamBodies == {"", "{\"x\":1}"}

\* failures raised inside the connection set-up and send, which urllib wraps
\* in URLError, and failures raised after it, which urllib lets through
ConnectCauses ==
    {"[Errno -2] Name or service not known", "[Errno 111] Connection refused",
     "[SSL: CERTIFICATE_VERIFY_FAILED]", "timed out"}
ResponseCauses == {"timed out", "Remote end closed connection without response"}
ReadCauses == {"timed out", "IncompleteRead"}

----------------------------------------------------------------------------
(* State *)

NoRequest ==
    [route |-> "", method |-> "", path |-> "", query |-> None, headers |-> <<>>, data |-> ""]

NoUpstream ==
    [kind |-> "none", status |-> 0, content_type |-> None, body |-> "", cause |-> ""]

Init ==
    /\ pc = "idle"
    /\ req = NoRequest
    /\ gate = "pending"
    /\ target = None
    /\ body = None
    /\ outbound = <<>>
    /\ upstream = NoUpstream
    /\ resp = NoResponse
    /\ outcome = "none"

\* the framework hands the view's response to after_request and sends it
Respond(response, by) ==
    /\ resp' = after_request(req, response)
    /\ outcome' = by
    /\ pc' = "done"

\* an exception leaves the view: the handler built no response
Escape(by) ==
    /\ resp' = NoResponse
    /\ outcome' = by
    /\ pc' = "fault"

WithOrigin(h, o) == IF o.some THEN h @@ ("Origin" :> o.val) ELSE h

\* A request arrives and is routed: GET / to index(), the six methods on
\* /proxy and /proxy/<path:url> to proxy().
Receive(methods, paths, queries, origins, headers) ==
    /\ pc = "idle"
    /\ \E o \in origins, h \in headers, d \in Bodies :
        \/ \E m \in methods, p \in paths, q \in queries :
              req' = [route |-> "proxy", method |-> m, path |-> p, query |-> q,
                      headers |-> WithOrigin(h, o), data |-> d]
        \/ req' = [route |-> "index", method |-> "GET", path |-> "/", query |-> None,
                   headers |-> WithOrigin(h, o), data |-> d]
    /\ pc' = "routed"
    /\ UNCHANGED <<gate, target, body, outbound, upstream, resp, outcome>>

ReceiveMain == Receive(PROXY_METHODS, MainPaths, MainQueries, MainOrigins, MainHeaders)

ReceiveWideOrigins ==
    Receive(NarrowMethods, NarrowPaths, NarrowQueries, WideOrigins, NarrowHeaders)

ReceiveWideHeaders ==
    Receive(NarrowMethods, NarrowPaths, NarrowQueries, NarrowOrigins, WideHeaders)

----------------------------------------------------------------------------
(* index() *)

Index ==
    /\ pc = "routed"
    /\ req.route = "index"
    /\ Respond(JsonResponse(<<<<"status", "ok">>, <<"usage", "/proxy?url=<encoded_url>">>>>, 200),
               "health")
    /\ UNCHANGED <<req, gate, target, body, outbound, upstream>>

----------------------------------------------------------------------------
(* proxy(), the origin gate *)

\* Faulty variant: every preflight is answered 200
Preflight_always_ok ==
    /\ pc = "routed"
    /\ req.route = "proxy"
    /\ req.method = "OPTIONS"
    /\ gate' = "allowed"
    /\ Respond(EmptyResponse(200), "preflight_ok")
    /\ UNCHANGED <<req, target, body, outbound, upstream>>

\* if request.method == "OPTIONS": 200 or 403, empty body
Preflight ==
    /\ pc = "routed"
    /\ req.route = "proxy"
    /\ req.method = "OPTIONS"
    /\ IF is_origin_allowed(Origin(req))
       THEN gate' = "allowed" /\ Respond(EmptyResponse(200), "preflight_ok")
       ELSE gate' = "denied" /\ Respond(EmptyResponse(403), "preflight_forbidden")
    /\ UNCHANGED <<req, target, body, outbound, upstream>>

\* if not is_origin_allowed(origin): 403
Forbid ==
    /\ pc = "routed"
    /\ req.route = "proxy"
    /\ req.method # "OPTIONS"
    /\ ~is_origin_allowed(Origin(req))
    /\ gate' = "denied"
    /\ Respond(JsonResponse(<<<<"error", "Forbidden">>, <<"message", "Origin not allowed">>>>, 403),
               "forbidden")
    /\ UNCHANGED <<req, target, body, outbound, upstream>>

PassGate ==
    /\ pc = "routed"
    /\ req.route = "proxy"
    /\ req.method # "OPTIONS"
    /\ is_origin_allowed(Origin(req))
    /\ gate' = "allowed"
    /\ pc' = "resolve"
    /\ UNCHANGED <<req, target, body, outbound, upstream, resp, outcome>>

----------------------------------------------------------------------------
(* proxy(), the target *)

\* target_url = get_target_url(...); if not target_url: 400
\* (jsonify sorts the keys of the object)
Resolve ==
    /\ pc = "resolve"
    /\ target' = get_target_url(req.path, req.query)
    /\ IF Truthy(target')
       THEN pc' = "validate" /\ UNCHANGED <<resp, outcome>>
       ELSE Respond(JsonResponse(<<<<"error", "Missing target URL">>,
                                   <<"example", "/proxy?url=https://api.example.com/data">>,
                                   <<"usage", "/proxy?url=<encoded_url> or /proxy/<url>">>>>, 400),
                    "missing_target")
    /\ UNCHANGED <<req, gate, body, outbound, upstream>>

\* Faulty variant: any URL that has a scheme is accepted
Validate_any_scheme ==
    /\ pc = "validate"
    /\ IF UrlParseRaises(target.val)
       THEN /\ Respond(JsonResponse(<<<<"error", "Invalid URL format">>>>, 400), "invalid_format")
            /\ UNCHANGED body
       ELSE IF UrlScheme(target.val) = ""
       THEN /\ Respond(JsonResponse(<<<<"error", "URL must start with http:// or https://">>>>, 400),
                       "invalid_scheme")
            /\ UNCHANGED body
       ELSE /\ body' = (IF req.method \in BODY_METHODS THEN Some(req.data) ELSE None)
            /\ pc' = "open"
            /\ UNCHANGED <<resp, outcome>>
    /\ UNCHANGED <<req, gate, target, outbound, upstream>>

\* urlparse and the scheme test; then the inbound body is taken for the
\* methods that carry one
Validate ==
    /\ pc = "validate"
    /\ IF UrlParseRaises(target.val)
       THEN /\ Respond(JsonResponse(<<<<"error", "Invalid URL format">>>>, 400), "invalid_format")
            /\ UNCHANGED body
       ELSE IF UrlScheme(target.val) \notin {"http", "https"}
       THEN /\ Respond(JsonResponse(<<<<"error", "URL must start with http:// or https://">>>>, 400),
                       "invalid_scheme")
            /\ UNCHANGED body
       ELSE /\ body' = (IF req.method \in BODY_METHODS THEN Some(req.data) ELSE None)
            /\ pc' = "open"
            /\ UNCHANGED <<resp, outcome>>
    /\ UNCHANGED <<req, gate, target, outbound, upstream>>

----------------------------------------------------------------------------
(* proxy(), the forwarder *)

\* urllib.request.Request(...) and the call of urlopen(req, timeout=30)
Open ==
    /\ pc = "open"
    /\ outbound' = Append(outbound,
                          [method |-> req.method, url |-> target.val,
                           headers |-> get_forward_headers(req.headers),
                           data |-> body, timeout |-> TIMEOUT])
    /\ pc' = "awaiting"
    /\ UNCHANGED <<req, gate, target, body, upstream, resp, outcome>>

\* urlopen returns a response and response.read() returns its body
Relay ==
    /\ pc = "awaiting"
    /\ \E st \in OkStatuses, ct \in UpstreamContentTypes, b \in UpstreamBodies :
        /\ upstream' = [kind |-> "response", status |-> st, content_type |-> ct,
                        body |-> b, cause |-> ""]
        /\ Respond(Response(b, st, IF ct.some THEN ct.val ELSE DEFAULT_CONTENT_TYPE), "relay")
    /\ UNCHANGED <<req, gate, target, body, outbound>>

\* urlopen returns a response and response.read() raises inside the try:
\* the exception is no URLError, so "except Exception" takes it
RelayReadFails ==
    /\ pc = "awaiting"
    /\ \E st \in OkStatuses, ct \in UpstreamContentTypes, c \in ReadCauses :
        /\ upstream' = [kind |-> "response_cut", status |-> st, content_type |-> ct,
                        body |-> "", cause |-> c]
        /\ Respond(JsonResponse(<<<<"error", "Proxy error">>, <<"message", c>>>>, 500),
                   "proxy_error")
    /\ UNCHANGED <<req, gate, target, body, outbound>>

\* Faulty variant: the URLError clause placed first takes HTTPError, its subclass
RelayHTTPError_as_url_error ==
    /\ pc = "awaiting"
    /\ \E st \in ErrorStatuses, ct \in UpstreamContentTypes, b \in UpstreamBodies :
        /\ upstream' = [kind |-> "http_error", status |-> st, content_type |-> ct,
                        body |-> b, cause |-> ""]
        /\ Respond(JsonResponse(<<<<"error", "Failed to connect">>, <<"message", "HTTP Error">>>>, 502),
                   "failed_to_connect")
    /\ UNCHANGED <<req, gate, target, body, outbound>>

\* except urllib.error.HTTPError: the target answered with an error status
\* (urlopen always sets e.fp) and e.read() returns its body
RelayHTTPError ==
    /\ pc = "awaiting"
    /\ \E st \in ErrorStatuses, ct \in UpstreamContentTypes, b \in UpstreamBodies :
        /\ upstream' = [kind |-> "http_error", status |-> st, content_type |-> ct,
                        body |-> b, cause |-> ""]
        /\ Respond(Response(b, st, IF ct.some THEN ct.val ELSE DEFAULT_CONTENT_TYPE),
                   "relay_http_error")
    /\ UNCHANGED <<req, gate, target, body, outbound>>

\* except urllib.error.HTTPError, and e.read() raises: an exception raised
\* in an except clause is not seen by the clauses after it and leaves proxy()
HTTPErrorReadFails ==
    /\ pc = "awaiting"
    /\ \E st \in ErrorStatuses, ct \in UpstreamContentTypes, c \in ReadCauses :
        /\ upstream' = [kind |-> "http_error_cut", status |-> st, content_type |-> ct,
                        body |-> "", cause |-> c]
        /\ Escape("escaped")
    /\ UNCHANGED <<req, gate, target, body, outbound>>

\* except urllib.error.URLError: 502 with str(e.reason)
ConnectFails ==
    /\ pc = "awaiting"
    /\ \E c \in ConnectCauses :
        /\ upstream' = [kind |-> "url_error", status |-> 0, content_type |-> None,
                        body |-> "", cause |-> c]
        /\ Respond(JsonResponse(<<<<"error", "Failed to connect">>, <<"message", c>>>>, 502),
                   "failed_to_connect")
    /\ UNCHANGED <<req, gate, target, body, outbound>>

\* except Exception: urlopen raises anything that is no URLError, 500 with str(e)
OtherFails ==
    /\ pc = "awaiting"
    /\ \E c \in ResponseCauses :
        /\ upstream' = [kind |-> "raised", status |-> 0, content_type |-> None,
                        body |-> "", cause |-> c]
        /\ Respond(JsonResponse(<<<<"error", "Proxy error">>, <<"message", c>>>>, 500),
                   "proxy_error")
    /\ UNCHANGED <<req, gate, target, body, outbound>>

\* the request is over; nothing of it is kept
Finish ==
    /\ pc \in {"done", "fault"}
    /\ pc' = "idle"
    /\ req' = NoRequest
    /\ gate' = "pending"
    /\ target' = None
    /\ body' = None
    /\ outbound' = <<>>
    /\ upstream' = NoUpstream
    /\ resp' = NoResponse
    /\ outcome' = "none"

----------------------------------------------------------------------------
(* Specifications: the same server under three request populations *)

Next ==
    \/ ReceiveMain
    \/ Index
    \/ Preflight
    \/ Forbid
    \/ PassGate
    \/ Resolve
    \/ Validate
    \/ Open
    \/ Relay
    \/ RelayReadFails
    \/ RelayHTTPError
    \/ HTTPErrorReadFails
    \/ ConnectFails
    \/ OtherFails
    \/ Finish

Spec == Init /\ [][Next]_vars

NextOrigins ==
    \/ ReceiveWideOrigins
    \/ Index
    \/ Preflight
    \/ Forbid
    \/ PassGate
    \/ Resolve
    \/ Validate
    \/ Open
    \/ Relay
    \/ RelayReadFails
    \/ RelayHTTPError
    \/ HTTPErrorReadFails
    \/ ConnectFails
    \/ OtherFails
    \/ Finish

SpecOrigins == Init /\ [][NextOrigins]_vars

NextHeaders ==
    \/ ReceiveWideHeaders
    \/ Index
    \/ Preflight
    \/ Forbid
    \/ PassGate
    \/ Resolve
    \/ Validate
    \/ Open
    \/ Relay
    \/ RelayReadFails
    \/ RelayHTTPError
    \/ HTTPErrorReadFails
    \/ ConnectFails
    \/ OtherFails
    \/ Finish

SpecHeaders == Init /\ [][NextHeaders]_vars

----------------------------------------------------------------------------
(* Properties *)

\* The allow-list rule as the specification words it: the origin is an
\* entry, or an entry followed by "/" or ":" and anything.
SpecAccepts(o) ==
    \E e \in Range(ALLOWED_ORIGINS) :
        \/ o = e
        \/ /\ Len(o) > Len(e)
           /\ SubSeq(o, 1, Len(e)) = e
           /\ CharAt(o, Len(e) + 1) \in {"/", ":"}

\* The scheme rule as the specification words it: the string starts, in any
\* letter case, with "http:" or "https:".
SchemeIsHttp(url) ==
    \E p \in {"http:", "https:"} : Len(url) >= Len(p) /\ Lower(SubSeq(url, 1, Len(p))) = p

ForbiddenBody == "{\"error\":\"Forbidden\",\"message\":\"Origin not allowed\"}"

AllCors(origin) ==
    [allow_origin  |-> origin,
     allow_methods |-> "GET, POST, PUT, DELETE, OPTIONS, PATCH",
     allow_headers |-> "Content-Type, Authorization, X-Requested-With, Accept, Origin",
     max_age       |-> "86400"]

ProxyRequest == req.route = "proxy"

\* C1: a non-OPTIONS request to the proxy whose Origin is missing, empty or
\* not accepted never gets past the gate: no outbound call is issued for it,
\* and its response is 403 with the JSON body Forbidden / Origin not allowed
\* and without CORS headers.
C1_DisallowedOriginForbidden ==
    (ProxyRequest /\ req.method # "OPTIONS" /\ ~SpecAccepts(Origin(req)))
        => /\ outbound = <<>>
           /\ pc \in {"routed", "done"}
           /\ pc = "done" =>
                /\ resp.status = 403
                /\ resp.body = ForbiddenBody
                /\ resp.cors = NoCors

C1_Witness ==
    /\ pc = "done"
    /\ req.method = "POST"
    /\ Origin(req) = "http://localhost.evil.example"
    /\ req.query = Some("http://t.test/a")
    /\ resp.status = 403
    /\ outbound = <<>>

\* C2: the gate's verdict is "allowed" exactly when the origin equals an
\* allow-list entry or starts with an entry followed by "/" or ":"; the empty
\* or missing origin is denied.
C2_GateMatchesAllowList ==
    gate # "pending"
        => /\ (gate = "allowed") <=> SpecAccepts(Origin(req))
           /\ Origin(req) = "" => gate = "denied"

C2_Witness ==
    /\ gate = "allowed"
    /\ Origin(req) = "http://127.0.0.1:3"

\* C3: a request that passed the gate and whose target does not parse or has
\* a scheme other than http/https is answered 400 without an outbound call;
\* every outbound call is made for the resolved target, after its scheme was
\* found to be http or https.
C3_SchemeValidatedBeforeCall ==
    /\ (pc = "done" /\ ProxyRequest /\ req.method # "OPTIONS" /\ gate = "allowed"
            /\ Truthy(target)
            /\ (target.val \in MalformedTargets \/ ~SchemeIsHttp(target.val)))
        => (resp.status = 400 /\ outbound = <<>>)
    /\ (pc \in {"open", "awaiting"} \/ outbound # <<>>)
        => (Truthy(target) /\ SchemeIsHttp(target.val) /\ target.val \notin MalformedTargets)
    /\ \A i \in 1..Len(outbound) : outbound[i].url = target.val

C3_Witness ==
    /\ pc = "done"
    /\ gate = "allowed"
    /\ req.method = "GET"
    /\ target = Some("ftp://x.test/y")
    /\ resp.status = 400
    /\ outbound = <<>>

\* C4 as claimed: once the target is resolved, a present query parameter is
\* the target, even when it is the empty string, and the response is never
\* Missing target URL.
C4_PresentQueryWins ==
    (pc \notin {"idle", "routed", "resolve"} /\ ProxyRequest /\ gate = "allowed"
        /\ req.method # "OPTIONS" /\ req.query.some)
        => (target = req.query /\ outcome # "missing_target")

\* C4 as the code has it: a present, non-empty query parameter is the target
\* whatever the path; a present but empty one counts as absent, so the target
\* is the path remainder under /proxy/, and without one the response is
\* 400 Missing target URL.
C4_NonEmptyQueryWins ==
    (pc \notin {"idle", "routed", "resolve"} /\ ProxyRequest /\ gate = "allowed"
        /\ req.method # "OPTIONS" /\ req.query.some)
        => IF req.query.val # ""
           THEN target = req.query /\ outcome # "missing_target"
           ELSE IF req.path = "/proxy"
           THEN target = None /\ pc = "done" /\ outcome = "missing_target" /\ resp.status = 400
           ELSE target.some /\ target.val # "" /\ req.path = "/proxy/" \o target.val

C4_Witness ==
    /\ pc = "done"
    /\ req.query = Some("")
    /\ req.path = "/proxy/https://x.test/y"
    /\ Len(outbound) = 1
    /\ outbound[1].url = "https://x.test/y"

\* C5: when the target answers with an error status and its body is read,
\* the response carries that status, that body and that Content-Type
\* (application/octet-stream when there is none); it is not one of the
\* proxy's own 502 / 500 error outcomes.
C5_UpstreamErrorRelayed ==
    (pc \in {"done", "fault"} /\ upstream.kind = "http_error")
        => /\ pc = "done"
           /\ outcome = "relay_http_error"
           /\ resp.status = upstream.status
           /\ resp.body = upstream.body
           /\ resp.content_type =
                (IF upstream.content_type.some THEN upstream.content_type.val
                 ELSE "application/octet-stream")

C5_Witness ==
    /\ pc = "done"
    /\ req.method = "GET"
    /\ Origin(req) = "http://localhost:3000"
    /\ upstream.kind = "http_error"
    /\ upstream.status = 404
    /\ upstream.body = "{\"x\":1}"
    /\ resp.status = 404
    /\ resp.body = "{\"x\":1}"
    /\ resp.cors.allow_origin = "http://localhost:3000"

\* C6 as claimed: every failure that keeps a complete response of the target
\* from arriving, a timeout at any point included, ends in 502 Failed to
\* connect with a non-empty reason.
C6_FailuresAre502 ==
    (pc \in {"done", "fault"}
        /\ upstream.kind \in {"url_error", "raised", "response_cut", "http_error_cut"})
        => /\ pc = "done"
           /\ resp.status = 502
           /\ upstream.cause # ""
           /\ resp.body = "{\"error\":\"Failed to connect\",\"message\":\"" \o upstream.cause \o "\"}"

\* C7: a response carries the four CORS headers exactly when the request's
\* Origin passes the gate, and then Access-Control-Allow-Origin is that
\* Origin, verbatim.
C7_CorsIffAllowed ==
    pc = "done"
        => /\ (resp.cors # NoCors) <=> SpecAccepts(Origin(req))
           /\ SpecAccepts(Origin(req)) => resp.cors = AllCors(Origin(req))
           /\ ~SpecAccepts(Origin(req)) =>
                (/\ resp.cors.allow_origin = "" /\ resp.cors.allow_methods = ""
                 /\ resp.cors.allow_headers = "" /\ resp.cors.max_age = "")

C7_Witness ==
    /\ pc = "done"
    /\ outcome = "failed_to_connect"
    /\ Origin(req) = "http://localhost:3"
    /\ resp.cors.allow_origin = "http://localhost:3"

\* C8: an OPTIONS request to the proxy is answered by the gate alone, 200 for
\* an accepted origin and 403 otherwise, with an empty body; its target is
\* never resolved and no outbound call is made.
C8_PreflightGateOnly ==
    (ProxyRequest /\ req.method = "OPTIONS")
        => /\ outbound = <<>>
           /\ target = None
           /\ upstream = NoUpstream
           /\ pc \in {"routed", "done"}
           /\ pc = "done" =>
                /\ resp.body = ""
                /\ resp.status = (IF SpecAccepts(Origin(req)) THEN 200 ELSE 403)

C8_Witness ==
    /\ pc = "done"
    /\ req.method = "OPTIONS"
    /\ req.query = Some("http://t.test/a")
    /\ Origin(req) = "https://evil.example"
    /\ resp.status = 403
    /\ resp.body = ""

ForwardedOnlyListed(sent) ==
    /\ DOMAIN sent \subseteq Range(FORWARD_HEADERS)
    /\ DOMAIN sent \cap {"Cookie", "Host", "Origin"} = {}
    /\ \A n \in DOMAIN sent \ {"User-Agent"} : n \in DOMAIN req.headers /\ sent[n] = req.headers[n]
    /\ "User-Agent" \in DOMAIN sent
    /\ sent["User-Agent"] # ""

\* C9 as claimed: the forwarded headers are among the five listed names, each
\* with its incoming value, and the User-Agent is the incoming one if the
\* request has one, the default otherwise, and never empty.
C9_ForwardedHeaders ==
    \A i \in 1..Len(outbound) :
        /\ ForwardedOnlyListed(outbound[i].headers)
        /\ outbound[i].headers["User-Agent"] =
             (IF "User-Agent" \in DOMAIN req.headers THEN req.headers["User-Agent"]
              ELSE "CORS-Proxy/1.0")

\* C9 as the code has it: the same, with the User-Agent being the incoming
\* one if the request has one with a non-empty value, the default otherwise.
C9_ForwardedHeadersNonEmptyUA ==
    \A i \in 1..Len(outbound) :
        /\ ForwardedOnlyListed(outbound[i].headers)
        /\ outbound[i].headers["User-Agent"] =
             (IF "User-Agent" \in DOMAIN req.headers /\ req.headers["User-Agent"] # ""
              THEN req.headers["User-Agent"]
              ELSE "CORS-Proxy/1.0")

C9_Witness ==
    /\ Len(outbound) = 1
    /\ DOMAIN req.headers = {"User-Agent", "Cookie", "Origin"}
    /\ req.headers["User-Agent"] = ""
    /\ req.headers["Cookie"] = "v"
    /\ DOMAIN outbound[1].headers = {"User-Agent"}
    /\ outbound[1].headers["User-Agent"] = "CORS-Proxy/1.0"

\* C10 as claimed: a request ends in one response of the fixed outcome set,
\* no exception leaves the handler, and at most one outbound call is made.
C10_NoEscape ==
    /\ pc # "fault"
    /\ Len(outbound) <= 1
    /\ pc = "done" =>
        /\ resp # NoResponse
        /\ outcome \in {"health", "preflight_ok", "preflight_forbidden", "forbidden",
                        "missing_target", "invalid_format", "invalid_scheme", "relay",
                        "relay_http_error", "failed_to_connect", "proxy_error"}

====
